---- MODULE Spec2Model ----
(***************************************************************************)
(* Model of restapi/go-mock-server/mock_server.go: a configuration-driven  *)
(* HTTP mock server.  main() reads a JSON file, decodes it into a list of  *)
(* ApiFormat records, registers one handler closure per record on the      *)
(* default net/http ServeMux under the pattern Method+" "+Url, and calls   *)
(* http.ListenAndServe.                                                    *)
(*                                                                         *)
(* The standard library is modelled by its documented behaviour (Go 1.22   *)
(* pattern syntax, which the "METHOD /path" patterns of line 50 rely on):  *)
(* encoding/json decoding and encoding, fmt verbs, ServeMux registration   *)
(* and matching, and the http.ResponseWriter of the net/http server.       *)
(*                                                                         *)
(* Strings that the code takes apart are represented structurally: a url   *)
(* is its sequence of path segments ("/api/" is <<"api", "">>, "" is <<>>);*)
(* the pattern Method+" "+Url is the pair of its two parts; a response     *)
(* body is the sequence of JSON tokens written to the connection.          *)
(***************************************************************************)
EXTENDS Integers, Sequences, FiniteSets, Bags, TLC

\* Bounds of the model.
MaxApis == 2      \* records in the configuration file
MaxReqs == 2      \* requests in flight at the same time

\* flag.Int("port", 8080, ...)
DefaultPort == 8080

-----------------------------------------------------------------------------
(* JSON values as decoded into interface{} / map[string]interface{}.       *)

JStr(s)  == [t |-> "str",  v |-> s]
JNum(n)  == [t |-> "num",  v |-> n]
JBool(b) == [t |-> "bool", v |-> b]
JNull    == [t |-> "null", v |-> 0]

\* A Go map; NilMap is the zero value (a nil map ranges over nothing).
NilMap    == [t |-> "nil", v |-> << >>]
GoMap(f)  == [t |-> "map", v |-> f]
Keys(m)   == DOMAIN m.v

\* One-entry and two-entry maps.
M1(k, x)          == GoMap([j \in {k} |-> x])
M2(k1, x1, k2, x2) == GoMap([j \in {k1, k2} |-> IF j = k1 THEN x1 ELSE x2])

-----------------------------------------------------------------------------
(* The configuration file.  A field of a record of the file is present     *)
(* with a value of the right JSON type, absent, or present with a value    *)
(* of the wrong JSON type.                                                 *)

Ok(x)   == [k |-> "ok", v |-> x]
Missing == [k |-> "missing", v |-> 0]
Wrong   == [k |-> "wrong", v |-> 0]

Raw(url, method, status, headers, body, delay) ==
  [url |-> url, method |-> method, status |-> status,
   headers |-> headers, body |-> body, delay |-> delay]

\* The records a configuration file is assembled from.
RawPool ==
  << \* the example: GET /ping answers 200, X-Test: 1, {"ok": true}
     Raw(Ok(<<"ping">>), Ok("GET"), Ok(200),
         Ok(M1("X-Test", JNum(1))), Ok(M1("ok", JBool(TRUE))), Ok(0)),
     \* an error answer with two headers, a body and a delay
     Raw(Ok(<<"ping">>), Ok("POST"), Ok(500),
         Ok(M2("X-Test", JStr("a"), "x-test", JBool(TRUE))),
         Ok(M1("n", JNum(12))), Ok(5)),
     \* a url ending in "/", 204 with an empty (non-null) body, a delay
     Raw(Ok(<<"api", "">>), Ok("GET"), Ok(204),
         Missing, Ok(GoMap(<< >>)), Ok(5)),
     \* GET /ping again, "status" absent
     Raw(Ok(<<"ping">>), Ok("GET"), Missing,
         Ok(M1("X-Test", JNull)), Ok(M1("s", JStr("<"))), Ok(0)),
     \* "status" and "delay" of the wrong type
     Raw(Ok(<<"api", "v1">>), Ok("GET"), Wrong,
         Missing, Missing, Wrong),
     \* "method" absent, "body": null
     Raw(Ok(<<"ping">>), Missing, Ok(404),
         Missing, Ok(NilMap), Ok(0)),
     \* "url" absent
     Raw(Missing, Ok("GET"), Ok(200),
         Missing, Missing, Ok(0)) >>

RECURSIVE SeqsUpTo(_, _)
\* Sequences over S of length at most n.
SeqsUpTo(S, n) ==
  IF n = 0 THEN { << >> }
  ELSE LET shorter == SeqsUpTo(S, n - 1)
       IN  shorter \cup { Append(s, x) : s \in shorter, x \in S }

\* What os.ReadFile finds at the -mock-data path.
Files ==
  { [kind |-> "unreadable", recs |-> << >>],    \* no such file
    [kind |-> "syntax",     recs |-> << >>],    \* not well-formed JSON
    [kind |-> "notarray",   recs |-> << >>] }   \* well-formed, not an array
  \cup { [kind |-> "array", recs |-> s] : s \in SeqsUpTo(1..Len(RawPool), MaxApis) }

\* A record of the file with a field of the wrong JSON type.
WrongType(raw) ==
  \/ raw.url.k = "wrong"     \/ raw.method.k = "wrong"
  \/ raw.status.k = "wrong"  \/ raw.headers.k = "wrong"
  \/ raw.body.k = "wrong"    \/ raw.delay.k = "wrong"

\* A record of the file without one of the required fields.
MissingRequired(raw) ==
  raw.url.k = "missing" \/ raw.method.k = "missing" \/ raw.status.k = "missing"

-----------------------------------------------------------------------------
(* type ApiFormat / type ResponseFormat, and json.Unmarshal into them.     *)

ResponseFormat(status, headers, body) ==
  [Status |-> status, Headers |-> headers, Body |-> body]

ApiFormat(url, method, response, delay) ==
  [Url |-> url, Method |-> method, Response |-> response, Delay |-> delay]

\* A field keeps its zero value when the key is absent, and also when the
\* value has the wrong type (Unmarshal skips the field, goes on, and reports
\* an UnmarshalTypeError at the end).
Field(f, zero) == IF f.k = "ok" THEN f.v ELSE zero

DecodeApi(raw) ==
  ApiFormat(Field(raw.url, << >>),
            Field(raw.method, ""),
            ResponseFormat(Field(raw.status, 0),
                           Field(raw.headers, NilMap),
                           Field(raw.body, NilMap)),
            Field(raw.delay, 0))

\* json.Unmarshal(file, &apis), apis == []ApiFormat{} before; the result is
\* the slice only: main drops the error.
Unmarshal(f) ==
  IF f.kind = "array"
    THEN [j \in 1..Len(f.recs) |-> DecodeApi(RawPool[f.recs[j]])]
    ELSE << >>

\* The error json.Unmarshal returns (and main never looks at).
UnmarshalFails(f) ==
  \/ f.kind \in {"syntax", "notarray"}
  \/ /\ f.kind = "array"
     /\ \E j \in 1..Len(f.recs) : WrongType(RawPool[f.recs[j]])

-----------------------------------------------------------------------------
(* net/http ServeMux: patterns, registration conflicts and matching.       *)

\* The pattern string api.Method+" "+api.Url, as parsePattern splits it at
\* the first space.
Pattern(api) == [method |-> api.Method, segs |-> api.Url]

\* parsePattern rejects a pattern whose path part has no "/".
ValidPattern(p) == p.segs # << >>

\* A pattern path ending in "/" stands for the whole subtree below it.
IsSubtree(segs) == segs # << >> /\ segs[Len(segs)] = ""

\* The pattern path segs matches the request path.
PathMatches(segs, path) ==
  IF IsSubtree(segs)
    THEN /\ Len(path) >= Len(segs)
         /\ SubSeq(path, 1, Len(segs) - 1) = SubSeq(segs, 1, Len(segs) - 1)
    ELSE path = segs

\* pattern.compareMethods: how the requests of method m1 relate to those of
\* m2 (no method matches every method, GET also matches HEAD).
CompareMethods(m1, m2) ==
  CASE m1 = m2                     -> "equivalent"
    [] m1 = ""                     -> "moreGeneral"
    [] m2 = ""                     -> "moreSpecific"
    [] m1 = "GET" /\ m2 = "HEAD"   -> "moreGeneral"
    [] m1 = "HEAD" /\ m2 = "GET"   -> "moreSpecific"
    [] OTHER                       -> "disjoint"

\* pattern.comparePaths, for paths made of literal segments and an optional
\* trailing slash.
ComparePaths(s1, s2) ==
  CASE s1 = s2                                -> "equivalent"
    [] IsSubtree(s1) /\ PathMatches(s1, s2)   -> "moreGeneral"
    [] IsSubtree(s2) /\ PathMatches(s2, s1)   -> "moreSpecific"
    [] OTHER                                  -> "disjoint"

Inverse(rel) ==
  CASE rel = "moreGeneral"  -> "moreSpecific"
    [] rel = "moreSpecific" -> "moreGeneral"
    [] OTHER                -> rel

\* combineRelationships
CombineRelationships(r1, r2) ==
  CASE r1 = "equivalent" -> r2
    [] r1 = "disjoint"   -> "disjoint"
    [] r1 = "overlaps"   -> IF r2 = "disjoint" THEN "disjoint" ELSE "overlaps"
    [] OTHER             -> CASE r2 = "equivalent" -> r1
                              [] r2 = Inverse(r1)  -> "overlaps"
                              [] OTHER             -> r2

\* pattern.conflictsWith: the two patterns match a common request and
\* neither is more specific than the other.
ConflictsWith(p1, p2) ==
  LET mrel == CompareMethods(p1.method, p2.method)
      rel  == IF mrel = "disjoint" THEN "disjoint"
              ELSE CombineRelationships(mrel, ComparePaths(p1.segs, p2.segs))
  IN  rel \in {"equivalent", "overlaps"}

\* ServeMux.registerErr: why http.HandleFunc(pattern, handler) panics, or
\* "ok".  A mux is the set of its entries [pat, api]; api is the variable the
\* handler closure captures.
RegisterErr(m, api) ==
  CASE ~ValidPattern(Pattern(api))                          -> "invalid pattern"
    [] \E e \in m : ConflictsWith(Pattern(api), e.pat)      -> "conflict"
    [] OTHER                                                -> "ok"

\* http.HandleFunc on the default mux, when it does not panic.
HandleFunc(m, api) == m \cup { [pat |-> Pattern(api), api |-> api] }

\* routingNode.matchPath: among the entries registered for the method, the
\* one whose path matches and is the most specific; {} when there is none.
MatchPath(m, method, path) ==
  LET cands == { e \in m : e.pat.method = method /\ PathMatches(e.pat.segs, path) }
  IN  { e \in cands :
          \A o \in cands : ComparePaths(o.pat.segs, e.pat.segs) # "moreSpecific" }

\* A matchMethodAndPath that looks under every method.
MatchAnyMethod(m, method, path) ==
  UNION { MatchPath(m, e.pat.method, path) : e \in m }

\* routingNode.matchMethodAndPath: the exact method first, GET for a HEAD
\* request next, the patterns without a method last.
MatchMethodAndPath(m, method, path) ==
  IF MatchPath(m, method, path) # {} THEN MatchPath(m, method, path)
  ELSE IF method = "HEAD" /\ MatchPath(m, "GET", path) # {}
         THEN MatchPath(m, "GET", path)
  ELSE MatchPath(m, "", path)

\* exactMatch, used for the trailing-slash redirect.
ExactMatch(found, path) ==
  /\ found # {}
  /\ \A e \in found :
       IsSubtree(e.pat.segs) => (IsSubtree(path) /\ Len(e.pat.segs) = Len(path))

\* ServeMux.matchingMethods: the methods under which the path, or the path
\* with a slash appended, is registered; HEAD comes with GET.
MatchingMethods(m, path) ==
  LET hit(q) == { e.pat.method : e \in { x \in m : x.pat.method # ""
                                                    /\ PathMatches(x.pat.segs, q) } }
      ms     == hit(path) \cup (IF IsSubtree(path) THEN {} ELSE hit(Append(path, "")))
  IN  ms \cup (IF "GET" \in ms THEN {"HEAD"} ELSE {})

\* ServeMux.findHandler: what the mux does with a request (a clean path).
\*   [kind |-> "handler", api]   the closure registered for api
\*   [kind |-> "redirect"]       301 to the path with a slash appended
\*   [kind |-> "notallowed"]     405, Allow lists the registered methods
\*   [kind |-> "notfound"]       404
NoApi == ApiFormat(<< >>, "", ResponseFormat(0, NilMap, NilMap), 0)

FindHandler(m, method, path) ==
  LET found == MatchMethodAndPath(m, method, path)
      slash == Append(path, "")
  IN  CASE /\ ~ExactMatch(found, path)
           /\ ExactMatch(MatchMethodAndPath(m, method, slash), slash)
             -> [kind |-> "redirect", api |-> NoApi]
        [] found # {}
             -> [kind |-> "handler", api |-> (CHOOSE e \in found : TRUE).api]
        [] MatchingMethods(m, path) # {}
             -> [kind |-> "notallowed", api |-> NoApi]
        [] OTHER
             -> [kind |-> "notfound", api |-> NoApi]

-----------------------------------------------------------------------------
(* fmt, net/textproto and encoding/json as the handler uses them.          *)

\* fmt.Sprint(val) of a decoded JSON value (numbers are float64 and print
\* without a fraction when they have none).
Sprint(val) ==
  CASE val.t = "str"  -> val.v
    [] val.t = "num"  -> ToString(val.v)
    [] val.t = "bool" -> (IF val.v THEN "true" ELSE "false")
    [] OTHER          -> "<nil>"

\* textproto.CanonicalMIMEHeaderKey, which Header.Set applies to the key:
\* the first letter and every letter after a hyphen in upper case, the
\* others in lower case (given on the header names of RawPool).
CanonicalMIMEHeaderKey(key) ==
  CASE key = "x-test" -> "X-Test"
    [] OTHER          -> key

\* A token of JSON text.
Tok(kind, text) == [tok |-> kind, s |-> text]

\* The characters json.Encoder escapes inside a string (HTML escaping is on
\* by default), given on the strings of RawPool.
EscapeString(str) ==
  CASE str = "<" -> "\\u003c"
    [] OTHER     -> str

\* The reverse, as a JSON decoder reads a string token.
UnescapeString(text) ==
  CASE text = "\\u003c" -> "<"
    [] OTHER            -> text

\* Object keys in the order json.Encoder writes them (sorted).
SortedKeys == << "n", "ok", "s" >>

\* The numbers a body can hold.
Numbers == 0..20

EncodeValue(val) ==
  CASE val.t = "str"  -> Tok("string", EscapeString(val.v))
    [] val.t = "num"  -> Tok("number", ToString(val.v))
    [] val.t = "bool" -> Tok("literal", IF val.v THEN "true" ELSE "false")
    [] OTHER          -> Tok("literal", "null")

RECURSIVE EncodeMembers(_, _, _)
\* The members of the object f from position j of SortedKeys on.
EncodeMembers(f, j, first) ==
  IF j > Len(SortedKeys) THEN << >>
  ELSE IF SortedKeys[j] \notin DOMAIN f THEN EncodeMembers(f, j + 1, first)
  ELSE (IF first THEN << >> ELSE << Tok("punct", ",") >>)
       \o << Tok("string", EscapeString(SortedKeys[j])), Tok("punct", ":"),
             EncodeValue(f[SortedKeys[j]]) >>
       \o EncodeMembers(f, j + 1, FALSE)

\* json.NewEncoder(w).Encode(body): the object and a newline.
Encode(body) ==
  << Tok("punct", "{") >> \o EncodeMembers(body.v, 1, TRUE)
    \o << Tok("punct", "}"), Tok("space", "\n") >>

\* A JSON decoder on one value token.
DecodeValue(tk) ==
  CASE tk.tok = "string"  -> JStr(UnescapeString(tk.s))
    [] tk.tok = "number"  -> JNum(CHOOSE n \in Numbers : ToString(n) = tk.s)
    [] tk.s = "true"      -> JBool(TRUE)
    [] tk.s = "false"     -> JBool(FALSE)
    [] OTHER              -> JNull

RECURSIVE DecodeMembers(_, _, _)
\* Reads "key : value" groups from position j on into the object acc.
DecodeMembers(toks, j, acc) ==
  IF j + 2 > Len(toks) \/ toks[j].tok # "string" THEN acc
  ELSE LET key  == UnescapeString(toks[j].s)
           val  == DecodeValue(toks[j + 2])
           more == [x \in DOMAIN acc \cup {key} |-> IF x = key THEN val ELSE acc[x]]
       IN  IF j + 3 <= Len(toks) /\ toks[j + 3].s = ","
             THEN DecodeMembers(toks, j + 4, more)
             ELSE more

\* Decoding a response body back into a map; NilMap when nothing was sent.
Decode(toks) ==
  IF toks = << >> THEN NilMap ELSE GoMap(DecodeMembers(toks, 2, << >>))

-----------------------------------------------------------------------------
(* The http.ResponseWriter of one request.                                 *)

\* The writer a handler is given: no header set, nothing written.
NewWriter ==
  [hdr |-> << >>, wroteHeader |-> FALSE, status |-> 0, body |-> << >>]

\* w.Header().Set(key, value)
HeaderSet(w, key, value) ==
  LET ck == CanonicalMIMEHeaderKey(key)
  IN  [w EXCEPT !.hdr = [x \in DOMAIN w.hdr \cup {ck} |->
                           IF x = ck THEN value ELSE w.hdr[x]]]

\* checkWriteHeaderCode: WriteHeader panics on a code that is not three
\* digits.
ValidCode(code) == code >= 100 /\ code <= 999

\* w.WriteHeader(code) with a valid code.  An informational code (1xx other
\* than 101) is sent at once and leaves the final status to come.
WriteHeader(w, code) ==
  IF w.wroteHeader \/ (code >= 100 /\ code <= 199 /\ code # 101) THEN w
  ELSE [w EXCEPT !.wroteHeader = TRUE, !.status = code]

\* bodyAllowedForStatus
BodyAllowedForStatus(status) ==
  ~(status >= 100 /\ status <= 199) /\ status # 204 /\ status # 304

\* w.Write(data): the first write fixes the status to 200 if none was
\* written; the data is refused when the status allows no body and dropped
\* when the request is a HEAD.
Write(w, data, method) ==
  LET w1 == WriteHeader(w, 200)
  IN  IF BodyAllowedForStatus(w1.status) /\ method # "HEAD"
        THEN [w1 EXCEPT !.body = w1.body \o data]
        ELSE w1

\* What the server puts on the wire when the handler returns.
FinishRequest(w) == WriteHeader(w, 200)

\* The url string of a path.
RECURSIVE PathString(_)
PathString(path) ==
  IF path = << >> THEN "" ELSE "/" \o Head(path) \o PathString(Tail(path))

\* strings.Join(allowedMethods, ", ") of the sorted methods.
AllowValue(ms) ==
  IF ms = {"GET", "HEAD"} THEN "GET, HEAD"
  ELSE IF ms = {"POST"} THEN "POST"
  ELSE "GET, HEAD, POST"

\* The answers the mux gives by itself: http.Redirect, and http.Error with
\* 405 or 404.
MuxAnswer(found, m, req) ==
  LET error(code, line) ==
        Write(WriteHeader(HeaderSet(HeaderSet(NewWriter,
                "Content-Type", "text/plain; charset=utf-8"),
                "X-Content-Type-Options", "nosniff"), code),
              << Tok("text", line) >>, req.method)
  IN  CASE found.kind = "redirect" ->
             Write(WriteHeader(HeaderSet(NewWriter, "Location",
                                         PathString(req.path) \o "/"), 301),
                   << Tok("text", "Moved Permanently") >>, req.method)
        [] found.kind = "notallowed" ->
             HeaderSet(error(405, "Method Not Allowed"), "Allow",
                       AllowValue(MatchingMethods(m, req.path)))
        [] OTHER -> error(404, "404 page not found")

-----------------------------------------------------------------------------
(* The program state.                                                      *)

VARIABLES
  debug,    \* -debug
  port,     \* -port (the int the flag points to)
  file,     \* what is at the -mock-data path
  sinkOk,   \* whether a write of the logger to stderr succeeds
  pc,       \* where main is
  apis,     \* the decoded configuration
  i,        \* the record the registration loop is at
  mux,      \* http.DefaultServeMux
  stderr,   \* the records main has logged
  conn      \* the bag of requests in flight, one goroutine each

vars == << debug, port, file, sinkOk, pc, apis, i, mux, stderr, conn >>

\* The values given to -port.
PortValues == {DefaultPort, 9090}

\* Requests: a method and a clean path.
Requests ==
  [method : {"GET", "POST", "HEAD"}, path : { <<"ping">> }]
  \cup { [method |-> "GET", path |-> <<"api", "v1">>],
         [method |-> "GET", path |-> <<"api">>],
         [method |-> "POST", path |-> <<"api">>] }

\* A log record; slog drops the error of a failed write.
Record(level, msg, api) == [level |-> level, msg |-> msg, api |-> api]

Logged(log, rec) == IF sinkOk THEN Append(log, rec) ELSE log

Init ==
  /\ debug \in BOOLEAN
  /\ port \in PortValues
  /\ file \in Files
  /\ sinkOk \in BOOLEAN
  /\ pc = "ReadFile"
  /\ apis = << >>
  /\ i = 1
  /\ mux = {}
  /\ stderr = << >>
  /\ conn = EmptyBag

-----------------------------------------------------------------------------
(* main                                                                    *)

\* file, err := os.ReadFile(*mock_data); check(err)
ReadFile ==
  /\ pc = "ReadFile"
  /\ IF file.kind = "unreadable"
       THEN /\ pc' = "panicked"
            /\ stderr' = Logged(stderr, Record("ERROR", "Error occurred", NoApi))
       ELSE /\ pc' = "Unmarshal"
            /\ UNCHANGED stderr
  /\ UNCHANGED << debug, port, file, sinkOk, apis, i, mux, conn >>

\* apis := []ApiFormat{}; json.Unmarshal(file, &apis)
UnmarshalFile ==
  /\ pc = "Unmarshal"
  /\ apis' = Unmarshal(file)
  /\ i' = 1
  /\ pc' = "loop"
  /\ UNCHANGED << debug, port, file, sinkOk, mux, stderr, conn >>

\* One iteration of "for _, api := range apis": http.HandleFunc panics on a
\* pattern it rejects, otherwise the endpoint is registered and logged.
Register ==
  /\ pc = "loop"
  /\ i <= Len(apis)
  /\ IF RegisterErr(mux, apis[i]) = "ok"
       THEN /\ mux' = HandleFunc(mux, apis[i])
            /\ stderr' = Logged(stderr, Record("INFO", "Registered endpoint", apis[i]))
            /\ i' = i + 1
            /\ pc' = pc
       ELSE /\ pc' = "panicked"
            /\ UNCHANGED << mux, stderr, i >>
  /\ UNCHANGED << debug, port, file, sinkOk, apis, conn >>

\* A loop that stops one record early.
LoopStopsEarly(k, list) == k >= Len(list)

\* The loop has run over every record.
LoopDone(k, list) == k > Len(list)

\* fmt.Sprintf(":%s", port), port being the *int of flag.Int: %s formats a
\* string, any other operand comes out as %!s(type=value).
Sprintf(arg) ==
  [host |-> "",
   port |-> IF arg.type = "string" THEN arg.val
            ELSE "%!s(" \o arg.type \o "=" \o arg.val \o ")"]

\* net.Listen("tcp", addr) binds when the port of addr is a port number.
ListenOk(addr) == \E p \in PortValues : addr.port = ToString(p)

\* slog.Info("Starting server", ...); http.ListenAndServe(addr, nil): the
\* error of a failed listen is returned and dropped, and main returns.
ListenAndServe ==
  /\ pc = "loop"
  /\ LoopDone(i, apis)
  /\ stderr' = Logged(stderr, Record("INFO", "Starting server", NoApi))
  /\ pc' = IF ListenOk(Sprintf([type |-> "*int", val |-> "0xc000012120"]))
             THEN "serving" ELSE "returned"
  /\ UNCHANGED << debug, port, file, sinkOk, apis, i, mux, conn >>

Next == ReadFile \/ UnmarshalFile \/ Register \/ ListenAndServe

\* The program as written.
Spec == Init /\ [][Next]_vars

-----------------------------------------------------------------------------
(* Serving: net/http runs the handler of each request on a goroutine of    *)
(* its own.  The goroutines have no identity, so conn is the bag of their  *)
(* states.  A goroutine is at the statement it executes next:              *)
(*   "range"        for key, val := range api.Response.Headers { Set }     *)
(*   "WriteHeader"  w.WriteHeader(api.Response.Status); slog.Debug(...)    *)
(*   "Encode"       if api.Response.Body != nil { Encode }                 *)
(*   "Sleep"        if api.Delay > 0 { time.Sleep }                        *)
(* and then "sleeping" inside time.Sleep, "done" once the handler has      *)
(* returned and the response is complete, or "aborted" when the handler    *)
(* panicked and the server dropped the connection without a response.      *)
(* trace is the sequence of calls the handler has made on the writer, the  *)
(* logger and the clock.                                                   *)

\* A handler that sleeps before it writes the status.
NextStmtSleepFirst(stmt) ==
  CASE stmt = "range"       -> "Sleep"
    [] stmt = "Sleep"       -> "WriteHeader"
    [] stmt = "WriteHeader" -> "Encode"
    [] OTHER                -> "done"

\* The statement after stmt in the handler closure.
NextStmt(stmt) ==
  CASE stmt = "range"       -> "WriteHeader"
    [] stmt = "WriteHeader" -> "Encode"
    [] stmt = "Encode"      -> "Sleep"
    [] OTHER                -> "done"

\* The goroutine moves on from stmt; the server completes the response when
\* the handler returns.
Advance(c, stmt) ==
  LET n == NextStmt(stmt)
  IN  [c EXCEPT !.phase = n,
                !.w = IF n = "done" THEN FinishRequest(@) ELSE @]

\* The range statement ends when the map has no key left.
EndRange(c) == IF c.todo = {} THEN Advance(c, "range") ELSE c

Traced(c, op, val) == [c EXCEPT !.trace = Append(@, [op |-> op, val |-> val])]

InFlight == BagToSet(conn)

\* The goroutine in state c becomes d.
Becomes(c, d) == conn' = (conn (-) SetToBag({c})) (+) SetToBag({d})

\* A handler that holds a lock while it sleeps.
RunnableSerial(cs, c) ==
  /\ c.phase \notin {"done", "aborted"}
  /\ \A d \in cs : d.phase = "sleeping" => d = c

\* A goroutine inside its handler takes its next step whatever the other
\* goroutines cs do: the handler takes no lock and the server runs every
\* request on a goroutine of its own.
Runnable(cs, c) == c.phase \notin {"done", "aborted"}

\* The accept loop of net/http (Server.Serve) over the default mux, as
\* http.ListenAndServe(addr, nil) runs it on a bound listener.
Serve ==
  /\ pc = "loop"
  /\ LoopDone(i, apis)
  /\ stderr' = Logged(stderr, Record("INFO", "Starting server", NoApi))
  /\ pc' = "serving"
  /\ UNCHANGED << debug, port, file, sinkOk, apis, i, mux, conn >>

\* A request arrives and the mux picks its handler.  The answers of the mux
\* itself (404, 405, 301) are given in the same step.
Accept(req) ==
  /\ pc = "serving"
  /\ BagCardinality(conn) < MaxReqs
  /\ LET found == FindHandler(mux, req.method, req.path)
         c     == IF found.kind = "handler"
                    THEN EndRange(
                           [phase |-> "range", req |-> req, kind |-> found.kind,
                            api |-> found.api,
                            todo |-> Keys(found.api.Response.Headers),
                            w |-> NewWriter, trace |-> << >>])
                    ELSE [phase |-> "done", req |-> req, kind |-> found.kind,
                          api |-> NoApi, todo |-> {},
                          w |-> FinishRequest(MuxAnswer(found, mux, req)),
                          trace |-> << >>]
     IN  conn' = conn (+) SetToBag({c})
  /\ UNCHANGED << debug, port, file, sinkOk, pc, apis, i, mux, stderr >>

\* One iteration of the range over the header map, in whatever order the
\* map yields its keys: w.Header().Set(key, fmt.Sprint(val)).
SetHeader(c, key) ==
  /\ Runnable(InFlight, c)
  /\ c.phase = "range"
  /\ key \in c.todo
  /\ Becomes(c, EndRange(Traced(
         [c EXCEPT !.todo = @ \ {key},
                   !.w = HeaderSet(@, key, Sprint(c.api.Response.Headers.v[key]))],
         "Header.Set", key)))
  /\ UNCHANGED << debug, port, file, sinkOk, pc, apis, i, mux, stderr >>

\* A logger whose failed write panics.
SlogPanics(enabled, written) ==
  IF enabled /\ ~written THEN "panic" ELSE "continue"

\* What slog.Debug does to its caller: nothing, whether the record is
\* enabled or not and whether its write succeeds or not.
SlogReturns(enabled, written) == "continue"

\* slog.Debug("API request handled", "method", ..., "url", ..., "status", ...)
\* The record reaches stderr when -debug is set and the write succeeds; it
\* is kept in the trace of its request.
SlogDebug(c) ==
  IF SlogReturns(debug, sinkOk) # "continue"
    THEN Traced([c EXCEPT !.phase = "aborted"], "panic", "slog")
  ELSE IF debug /\ sinkOk
    THEN Traced(c, "slog.Debug", "API request handled")
  ELSE c

\* w.WriteHeader(api.Response.Status), then slog.Debug.  A code that is not
\* three digits panics; the server recovers the panic and drops the
\* connection.
WriteStatus(c) ==
  /\ Runnable(InFlight, c)
  /\ c.phase = "WriteHeader"
  /\ LET code == c.api.Response.Status
     IN  Becomes(c,
           IF ValidCode(code)
             THEN SlogDebug(Traced(Advance([c EXCEPT !.w = WriteHeader(@, code)],
                                           "WriteHeader"),
                                   "WriteHeader", ToString(code)))
             ELSE Traced([c EXCEPT !.phase = "aborted"], "panic", ToString(code)))
  /\ UNCHANGED << debug, port, file, sinkOk, pc, apis, i, mux, stderr >>

\* if api.Response.Body != nil { json.NewEncoder(w).Encode(api.Response.Body) }
EncodeBody(c) ==
  /\ Runnable(InFlight, c)
  /\ c.phase = "Encode"
  /\ LET body == c.api.Response.Body
     IN  Becomes(c,
           IF body.t # "nil"
             THEN Traced(Advance([c EXCEPT !.w = Write(@, Encode(body), c.req.method)],
                                 "Encode"),
                         "Encode", "")
             ELSE Advance(c, "Encode"))
  /\ UNCHANGED << debug, port, file, sinkOk, pc, apis, i, mux, stderr >>

\* if api.Delay > 0 { time.Sleep(api.Delay ms) }: the goroutine goes to sleep,
\* or the handler returns.
Sleep(c) ==
  /\ Runnable(InFlight, c)
  /\ c.phase = "Sleep"
  /\ Becomes(c,
       IF c.api.Delay > 0
         THEN Traced([c EXCEPT !.phase = "sleeping"], "Sleep", ToString(c.api.Delay))
         ELSE Advance(c, "Sleep"))
  /\ UNCHANGED << debug, port, file, sinkOk, pc, apis, i, mux, stderr >>

\* The delay has elapsed: time.Sleep returns, and so does the handler.
Wake(c) ==
  /\ Runnable(InFlight, c)
  /\ c.phase = "sleeping"
  /\ Becomes(c, Advance(c, "Sleep"))
  /\ UNCHANGED << debug, port, file, sinkOk, pc, apis, i, mux, stderr >>

\* The exchange is over and its goroutine ends.
Close(c) ==
  /\ c.phase \in {"done", "aborted"}
  /\ conn' = conn (-) SetToBag({c})
  /\ UNCHANGED << debug, port, file, sinkOk, pc, apis, i, mux, stderr >>

\* A step of the handler of the request in state c.
Step(c) ==
  \/ \E key \in c.todo : SetHeader(c, key)
  \/ WriteStatus(c)
  \/ EncodeBody(c)
  \/ Sleep(c)
  \/ Wake(c)

NextServe ==
  \/ ReadFile
  \/ UnmarshalFile
  \/ Register
  \/ Serve
  \/ \E req \in Requests : Accept(req)
  \/ \E c \in InFlight : \E key \in c.todo : SetHeader(c, key)
  \/ \E c \in InFlight : WriteStatus(c)
  \/ \E c \in InFlight : EncodeBody(c)
  \/ \E c \in InFlight : Sleep(c)
  \/ \E c \in InFlight : Wake(c)
  \/ \E c \in InFlight : Close(c)

\* Readable files that hold an array, and the default port.
InitServe == Init /\ file.kind = "array" /\ port = DefaultPort

\* The default mux behind a bound listener.  main itself does not get here
\* (see ListenAndServe).
SpecServe == InitServe /\ [][NextServe]_vars

-----------------------------------------------------------------------------
(* Properties of startup, checked under Spec.                              *)

\* The (method, url) key of a definition.
Key(api) == << api.Method, api.Url >>

\* The position of the last definition of the list with the key of api.
LastWith(list, api) ==
  CHOOSE j \in 1..Len(list) :
    /\ Key(list[j]) = Key(api)
    /\ \A k \in (j + 1)..Len(list) : Key(list[k]) # Key(api)

\* main has left the registration loop.
Registered == pc \in {"returned", "serving"}

\* C3: for every configuration sequence (of definitions with a url), also
\* one in which definitions share a (method, url), registration completes,
\* the number of registered pairs is the number of distinct keys, and the
\* definition bound to a key is the last one of the sequence with that key.
C3_LastWriteWins ==
  (file.kind = "array"
     /\ \A j \in 1..Len(file.recs) : RawPool[file.recs[j]].url.k = "ok")
  => /\ pc # "panicked"
     /\ Registered =>
          /\ Cardinality(mux) = Cardinality({ Key(apis[j]) : j \in 1..Len(apis) })
          /\ \A e \in mux : e.api = apis[LastWith(apis, e.api)]

\* The file is not a well-formed list of well-shaped endpoint definitions.
BadConfig ==
  \/ UnmarshalFails(file)
  \/ /\ file.kind = "array"
     /\ \E j \in 1..Len(file.recs) : MissingRequired(RawPool[file.recs[j]])

\* C5: when the configuration is not well-formed or a record does not have
\* the expected shape, the load fails as a whole: no endpoint of the
\* configuration is registered and the process never begins listening.
C5_LoadFailsAsAWhole ==
  BadConfig => (mux = {} /\ pc # "serving")

\* C10: after the configuration is read and every endpoint is registered the
\* process listens on the port of the flag and stays serving, so that the
\* registered routes can be reached; main never returns without having
\* listened.
C10_ListensAfterRegistration ==
  (~BadConfig /\ mux # {}) => pc # "returned"

-----------------------------------------------------------------------------
(* Properties of request handling, checked under SpecServe.                *)

\* The exchange of c is over: answered, or dropped after a panic.
Over(c) == c.phase \in {"done", "aborted"}

\* The handler of c has made the call op.
Has(c, op) == \E j \in 1..Len(c.trace) : c.trace[j].op = op

HasWith(c, op, val) ==
  \E j \in 1..Len(c.trace) : c.trace[j] = [op |-> op, val |-> val]

\* C1: for every registered definition and every request whose method and
\* path equal its method and url, the response has the definition's status,
\* carries every configured header with the string form of its value, has a
\* body that decodes back to the configured body when that is non-null, and
\* has no body when it is null.
C1_ConfiguredResponse ==
  \A c \in InFlight : \A e \in mux :
    (Over(c) /\ Key(e.api) = << c.req.method, c.req.path >>)
    => LET resp == e.api.Response
       IN  /\ c.phase = "done"
           /\ c.w.status = resp.Status
           /\ \A k \in Keys(resp.Headers) :
                /\ CanonicalMIMEHeaderKey(k) \in DOMAIN c.w.hdr
                /\ c.w.hdr[CanonicalMIMEHeaderKey(k)] = Sprint(resp.Headers.v[k])
           /\ resp.Body.t # "nil" => Decode(c.w.body) = resp.Body
           /\ resp.Body.t = "nil" => c.w.body = << >>

MethodCovers(pat, req) ==
  \/ pat.method = req.method
  \/ pat.method = ""
  \/ pat.method = "GET" /\ req.method = "HEAD"

Below(segs, path) ==
  /\ segs # << >>
  /\ segs[Len(segs)] = ""
  /\ Len(path) >= Len(segs)
  /\ \A j \in 1..(Len(segs) - 1) : path[j] = segs[j]

Covers(pat, req) ==
  MethodCovers(pat, req) /\ (pat.segs = req.path \/ Below(pat.segs, req.path))

Rank(op) ==
  CASE op = "Header.Set"  -> 1
    [] op = "WriteHeader" -> 2
    [] op = "Encode"      -> 3
    [] op = "Sleep"       -> 4
    [] OTHER              -> 0

\* C4: within one matched request the headers are set first, then the
\* status is written, then the body if it is non-null, then the handler
\* sleeps for delay milliseconds if delay > 0: no header is set after the
\* status, the delay precedes neither the status nor the body, and with
\* delay = 0 the handler returns without sleeping.
C4_HandlerOrder ==
  \A c \in InFlight :
    c.kind = "handler" =>
      /\ \A a, b \in 1..Len(c.trace) :
           (a < b /\ Rank(c.trace[a].op) > 0 /\ Rank(c.trace[b].op) > 0)
           => /\ Rank(c.trace[a].op) <= Rank(c.trace[b].op)
              /\ Rank(c.trace[a].op) = Rank(c.trace[b].op)
                   => c.trace[a].op = "Header.Set"
      /\ c.phase = "sleeping" =>
           /\ c.api.Delay > 0
           /\ c.trace[Len(c.trace)] = [op |-> "Sleep", val |-> ToString(c.api.Delay)]
           /\ Has(c, "WriteHeader")
           /\ c.api.Response.Body.t # "nil" => Has(c, "Encode")
      /\ c.phase = "done" =>
           /\ \A k \in Keys(c.api.Response.Headers) : HasWith(c, "Header.Set", k)
           /\ HasWith(c, "WriteHeader", ToString(c.api.Response.Status))
           /\ Has(c, "Encode") <=> c.api.Response.Body.t # "nil"
           /\ Has(c, "Sleep") <=> c.api.Delay > 0

C4_Witness ==
  \E c \in InFlight :
    /\ c.phase = "done"
    /\ Has(c, "Header.Set") /\ Has(c, "WriteHeader")
    /\ Has(c, "Encode") /\ Has(c, "Sleep")
    /\ c.w.body # << >>

\* C6: the delay suspends only its own request: while requests sleep, the
\* listener accepts a new request and every other request in flight can take
\* its next step; no request waits for the delay of another.
C6_DelayBlocksNoOne ==
  pc = "serving" =>
    /\ BagCardinality(conn) < MaxReqs => \A req \in Requests : ENABLED Accept(req)
    /\ \A c \in InFlight : ~Over(c) => ENABLED Step(c)

C6_Witness ==
  \E c, d \in InFlight :
    /\ c.phase = "sleeping"
    /\ d.phase \in {"range", "WriteHeader", "Encode"}

\* The event a log record stands for.
EventOf(msg) ==
  CASE msg = "API request handled" -> "request.handled"
    [] OTHER                       -> "none"

IsEvent(x, name) == x.op = "slog.Debug" /\ EventOf(x.val) = name

\* C7: a hit emits request.started before any header, status or body is
\* written and exactly one request.handled after the response is complete;
\* a miss emits exactly one request.not_found and nothing else.  (Stated for
\* a run with -debug and a working log, where every record is delivered.)
C7_EventsPerRequest ==
  \A c \in InFlight :
    (c.phase = "done" /\ debug /\ sinkOk) =>
      IF c.kind = "handler"
        THEN /\ Len(c.trace) >= 2
             /\ IsEvent(c.trace[1], "request.started")
             /\ IsEvent(c.trace[Len(c.trace)], "request.handled")
             /\ \A j \in 2..(Len(c.trace) - 1) : c.trace[j].op # "slog.Debug"
        ELSE /\ Len(c.trace) = 1
             /\ IsEvent(c.trace[1], "request.not_found")

\* The final status after WriteHeader(code).
FinalStatus(code) ==
  IF code >= 100 /\ code <= 199 /\ code # 101 THEN 200 ELSE code

AllRegistered ==
  \A j \in 1..Len(apis) : [pat |-> Pattern(apis[j]), api |-> apis[j]] \in mux

\* C9: the registry is built before the listener starts and is read-only
\* afterwards: when serving begins every definition has been registered, and
\* from then on, whatever requests are dispatched, the registered keys and
\* the definition bound to each stay what they were.
C9_RegistryReadOnly ==
  /\ [](pc = "serving" => AllRegistered)
  /\ [][pc = "serving" => (pc' = "serving" /\ mux' = mux /\ apis' = apis)]_vars

C9_Witness ==
  /\ pc = "serving"
  /\ Cardinality(mux) = 2
  /\ \E c, d \in InFlight : c.phase = "done" /\ c.kind = "handler" /\ d.phase = "sleeping"

====
